---- MODULE Spec2Model ----
(***************************************************************************)
(* A model of src/server.py of bio-mcp-bwa: the call_tool dispatcher and   *)
(* the five handlers _run_index, _run_mem, _run_aln, _run_samse and        *)
(* _run_sampe, together with the parts of their environment they act on:   *)
(* the filesystem, the child process and the timeout of asyncio.wait_for.  *)
(*                                                                         *)
(* Python values are modelled as follows.  A str is a TLA+ string, bytes   *)
(* are a sequence of integers 0..255, a dict is a function whose DOMAIN is *)
(* the set of its keys, a list of str is a sequence of strings.  An        *)
(* exception is a record [type, msg]; msg is what str(e) returns.          *)
(***************************************************************************)
EXTENDS Integers, Sequences, FiniteSets, TLC

(***************************************************************************)
(* Bounds of the model.                                                    *)
(***************************************************************************)
\* number of request slots of the transport
NumCalls == 2
\* longest standard-error capture of a child, in bytes
MaxErr == 2
\* longest output file of a child, in characters
MaxOut == 4
\* number of names tempfile can draw a directory name from
NumTmpNames == 2

(***************************************************************************)
(* Program constants.                                                      *)
(***************************************************************************)
\* "bwtsw" if file_size > 2_000_000_000 else "is"
SizeThreshold == 2000000000
\* arguments.get("threads", 4)
DefaultThreads == 4
\* arguments.get("min_seed_length", 19)
DefaultMinSeedLength == 19
\* arguments.get("band_width", 100)
DefaultBandWidth == 100
\* arguments.get("max_mismatches", 4)
DefaultMaxMismatches == 4
\* arguments.get("max_gap_opens", 1)
DefaultMaxGapOpens == 1

\* ServerSettings.bwa_path
BwaPath == "bwa"

Calls == 1 .. NumCalls

(***************************************************************************)
(* Strings.                                                                *)
(***************************************************************************)
\* t occurs in s
Contains(s, t) ==
    \E i \in 1 .. (Len(s) - Len(t) + 1) : SubSeq(s, i, i + Len(t) - 1) = t

\* s begins with t
StartsWith(s, t) == Len(t) <= Len(s) /\ SubSeq(s, 1, Len(t)) = t

\* the i-th character of s, as a string of length one
CharAt(s, i) == SubSeq(s, i, i)

\* the decimal digits of n >= 0, three at least (the groups after the first
\* of the format specification ",")
Pad3(n) ==
    IF n < 10 THEN "00" \o ToString(n)
    ELSE IF n < 100 THEN "0" \o ToString(n)
    ELSE ToString(n)

\* f"{n:,}" for n >= 0
RECURSIVE FormatComma(_)
FormatComma(n) ==
    IF n < 1000 THEN ToString(n)
    ELSE FormatComma(n \div 1000) \o "," \o Pad3(n % 1000)

\* "\n".join(xs)
RECURSIVE JoinLines(_)
JoinLines(xs) ==
    IF Len(xs) = 0 THEN ""
    ELSE IF Len(xs) = 1 THEN xs[1]
    ELSE xs[1] \o "\n" \o JoinLines(Tail(xs))

(***************************************************************************)
(* bytes.decode(): strict UTF-8.  The model's bytes are below 0xE0 or      *)
(* above 0xF4, so a character is one byte or two.                          *)
(***************************************************************************)
\* the bytes a child may write to its standard error
ErrBytes == {10, 65, 169, 195, 255}

\* chr(cp) for the code points the bytes above decode to
Chr(cp) ==
    CASE cp = 10 -> "\n"
      [] cp = 65 -> "A"
      [] cp = 233 -> "é"

\* f"0x{b:02x}" for the bytes above
Hex(b) ==
    CASE b = 10 -> "0x0a"
      [] b = 65 -> "0x41"
      [] b = 169 -> "0xa9"
      [] b = 195 -> "0xc3"
      [] b = 255 -> "0xff"

UnicodeDecodeError(b, pos, why) ==
    [type |-> "UnicodeDecodeError",
     msg |-> "'utf-8' codec can't decode byte " \o Hex(b) \o " in position "
             \o ToString(pos) \o ": " \o why]

\* decoding of bs from its i-th byte on: [ok, str] or [ok, exc]
RECURSIVE DecodeFrom(_, _)
DecodeFrom(bs, i) ==
    IF i > Len(bs) THEN [ok |-> TRUE, str |-> "", exc |-> [type |-> "", msg |-> ""]]
    ELSE IF bs[i] < 128 THEN
        LET rest == DecodeFrom(bs, i + 1)
        IN  IF rest.ok THEN [rest EXCEPT !.str = Chr(bs[i]) \o rest.str] ELSE rest
    ELSE IF bs[i] >= 194 /\ bs[i] <= 223 THEN
        IF i + 1 > Len(bs) THEN
            [ok |-> FALSE, str |-> "",
             exc |-> UnicodeDecodeError(bs[i], i - 1, "unexpected end of data")]
        ELSE IF bs[i + 1] < 128 \/ bs[i + 1] > 191 THEN
            [ok |-> FALSE, str |-> "",
             exc |-> UnicodeDecodeError(bs[i], i - 1, "invalid continuation byte")]
        ELSE
            LET rest == DecodeFrom(bs, i + 2)
                cp == (bs[i] - 192) * 64 + (bs[i + 1] - 128)
            IN  IF rest.ok THEN [rest EXCEPT !.str = Chr(cp) \o rest.str] ELSE rest
    ELSE
        [ok |-> FALSE, str |-> "",
         exc |-> UnicodeDecodeError(bs[i], i - 1, "invalid start byte")]

\* stderr.decode()
Decode(bs) == DecodeFrom(bs, 1)

(***************************************************************************)
(* Reading a text file line by line: a line ends after each "\n", and a    *)
(* last line without one is a line too.                                    *)
(***************************************************************************)
\* the end of the line of s that starts at i
RECURSIVE LineEnd(_, _)
LineEnd(s, i) ==
    IF i >= Len(s) THEN Len(s)
    ELSE IF CharAt(s, i) = "\n" THEN i
    ELSE LineEnd(s, i + 1)

\* for line in f, from the i-th character of the file on
RECURSIVE LinesFrom(_, _)
LinesFrom(s, i) ==
    IF i > Len(s) THEN <<>>
    ELSE LET e == LineEnd(s, i)
         IN  <<SubSeq(s, i, e)>> \o LinesFrom(s, e + 1)

FileLines(s) == LinesFrom(s, 1)

\* a variant that skips every line holding an "@", not only those that start
\* with one
CountRecords_AtAnywhere(content) ==
    Cardinality({i \in DOMAIN FileLines(content) :
                    ~Contains(FileLines(content)[i], "@")})

\* sum(1 for line in f if not line.startswith('@'))
CountRecords(content) ==
    Cardinality({i \in DOMAIN FileLines(content) :
                    ~StartsWith(FileLines(content)[i], "@")})

(***************************************************************************)
(* The exceptions the handlers meet.                                       *)
(***************************************************************************)
\* the types that "except Exception" catches
ExceptionTypes ==
    {"KeyError", "OSError", "FileNotFoundError", "PermissionError",
     "TimeoutError", "UnicodeDecodeError"}

\* arguments[k] for a key that is not in the dict; str() of it is repr(k)
KeyError(k) == [type |-> "KeyError", msg |-> "'" \o k \o "'"]

\* asyncio.wait_for raises TimeoutError(), which has no message
TimeoutError == [type |-> "TimeoutError", msg |-> ""]

\* create_subprocess_exec on a binary that is absent or not executable
SpawnErrors ==
    {[type |-> "FileNotFoundError",
      msg |-> "[Errno 2] No such file or directory: '" \o BwaPath \o "'"],
     [type |-> "PermissionError",
      msg |-> "[Errno 13] Permission denied: '" \o BwaPath \o "'"]}

\* reference_fasta.stat() on a file removed since exists()
StatError(p) ==
    [type |-> "FileNotFoundError",
     msg |-> "[Errno 2] No such file or directory: '" \o p \o "'"]

\* mkdtemp or open(.., 'w') on a full disk
DiskFull == [type |-> "OSError", msg |-> "[Errno 28] No space left on device"]

\* output.stat() or the reading of the output on a failing disk
IOError == [type |-> "OSError", msg |-> "[Errno 5] Input/output error"]

(***************************************************************************)
(* Responses.                                                              *)
(***************************************************************************)
NoResponse == [kind |-> "none", text |-> ""]

TextContent(t) == [kind |-> "text", text |-> t]

ErrorContent(t) == [kind |-> "error", text |-> t]

\* a fault that leaves the coroutine of the handler
Uncaught(e) == [kind |-> "uncaught", text |-> e.msg]

\* a variant whose except clause names OSError only
Except_OnlyOSError(e) ==
    IF e.type \in {"OSError", "FileNotFoundError", "PermissionError", "TimeoutError"}
    THEN ErrorContent("Error: " \o e.msg)
    ELSE Uncaught(e)

\* except Exception as e: return [ErrorContent(text=f"Error: {str(e)}")]
Except(e) ==
    IF e.type \in ExceptionTypes THEN ErrorContent("Error: " \o e.msg)
    ELSE Uncaught(e)

\* the label an error text opens with: the text up to its first ": "
RECURSIVE LabelEnd(_, _)
LabelEnd(t, i) ==
    IF i + 1 > Len(t) THEN Len(t)
    ELSE IF SubSeq(t, i, i + 1) = ": " THEN i + 1
    ELSE LabelEnd(t, i + 1)

ErrorClass(r) == IF r.kind = "error" THEN SubSeq(r.text, 1, LabelEnd(r.text, 1)) ELSE ""

(***************************************************************************)
(* Requests.                                                               *)
(***************************************************************************)
\* the keys of the handlers dict of call_tool
ToolNames == {"bwa_index", "bwa_mem", "bwa_aln", "bwa_samse", "bwa_sampe"}

\* a name call_tool has no handler for
UnknownName == "bwa_view"

\* the subcommand of bwa a handler runs
Subcommand(name) == SubSeq(name, 5, Len(name))

\* the path fields a handler reads, in the order it reads and checks them
PathKeys(name) ==
    CASE name = "bwa_index" -> <<"reference_fasta">>
      [] name = "bwa_mem" -> <<"reference", "reads1">>
      [] name = "bwa_aln" -> <<"reference", "reads">>
      [] name = "bwa_samse" -> <<"reference", "sai_file", "reads">>
      [] name = "bwa_sampe" ->
            <<"reference", "sai_file1", "sai_file2", "reads1", "reads2">>
      [] OTHER -> <<>>

\* a path that exists when the server starts, and one that never exists
GoodPath(k) == "/data/" \o k
BadPath(k) == "/missing/" \o k

AllPathKeys ==
    {"reference_fasta", "reference", "reads", "reads1", "reads2",
     "sai_file", "sai_file1", "sai_file2"}

BothPaths(k) == {GoodPath(k), BadPath(k)}

\* the values a request may give each field of a tool (a field may also be
\* left out)
FieldValues(name) ==
    CASE name = "bwa_index" ->
            [k \in {"reference_fasta", "algorithm"} |->
                IF k = "algorithm" THEN {"is", "bwtsw"} ELSE BothPaths(k)]
      [] name = "bwa_mem" ->
            [k \in {"reference", "reads1", "reads2", "threads",
                    "min_seed_length", "band_width"} |->
                CASE k = "threads" -> {8}
                  [] k = "min_seed_length" -> {1000000}
                  [] k = "band_width" -> {0}
                  [] OTHER -> BothPaths(k)]
      [] name = "bwa_aln" ->
            [k \in {"reference", "reads", "threads", "max_mismatches",
                    "max_gap_opens"} |->
                CASE k = "threads" -> {64}
                  [] k = "max_mismatches" -> {1000000}
                  [] k = "max_gap_opens" -> {0}
                  [] OTHER -> BothPaths(k)]
      [] name = "bwa_samse" ->
            [k \in {"reference", "sai_file", "reads"} |-> BothPaths(k)]
      [] name = "bwa_sampe" ->
            [k \in {"reference", "sai_file1", "sai_file2", "reads1", "reads2"}
                |-> BothPaths(k)]
      [] OTHER -> [k \in {"reference"} |-> BothPaths(k)]

EmptyDict == [k \in {} |-> ""]

\* the dicts over the keys of kv with values from kv
RECURSIVE Dicts(_, _)
Dicts(kv, keys) ==
    IF keys = {} THEN {EmptyDict}
    ELSE LET k == CHOOSE x \in keys : TRUE
             rest == Dicts(kv, keys \ {k})
         IN  rest \cup
             {[x \in DOMAIN d \cup {k} |-> IF x = k THEN v ELSE d[x]] :
                 d \in rest, v \in kv[k]}

ArgDicts(name) == Dicts(FieldValues(name), DOMAIN FieldValues(name))

\* arguments.get(k, default)
ArgGet(args, k, default) == IF k \in DOMAIN args THEN args[k] ELSE default

\* arguments.get(k) used as a condition: None and "" are false
Truthy(args, k) == k \in DOMAIN args /\ args[k] # ""

\* the sizes reference_fasta.stat().st_size may return
FileSizes == {0, 1999999999, 2000000000, 2000000001, 2147483647}

\* the exit codes of a child
ExitCodes == {0, 1}

RECURSIVE SeqsUpTo(_, _)
SeqsUpTo(S, n) ==
    IF n = 0 THEN {<<>>}
    ELSE LET shorter == SeqsUpTo(S, n - 1)
         IN  shorter \cup {Append(s, x) : s \in shorter, x \in S}

\* what a child may have written to its standard error
ErrCaptures == SeqsUpTo(ErrBytes, MaxErr)

RECURSIVE StringsUpTo(_, _)
StringsUpTo(S, n) ==
    IF n = 0 THEN {""}
    ELSE LET shorter == StringsUpTo(S, n - 1)
         IN  shorter \cup {s \o x : s \in shorter, x \in S}

\* what a child may have written to its standard output
OutContents == StringsUpTo({"@", "r", "\n"}, MaxOut)

\* the directories tempfile.TemporaryDirectory may create
TmpDirs == {"/tmp/tmp" \o ToString(i) : i \in 1 .. NumTmpNames}

\* the faults of the environment before the spawn
PreFaults == {"none", "stat", "mkdtemp", "open"}

\* the faults of the environment after a successful exit
PostFaults == {"none", "io"}

(***************************************************************************)
(* The state.                                                              *)
(*   calls[c]  the call in slot c of the transport: the position of its    *)
(*             handler (pc), its request (name, args), the local variables *)
(*             of the handler (size, algorithm, tmpdir, cmd), its child    *)
(*             process (child, rc, stderr, out), what it has done (spawns, *)
(*             mkdirs), how it ended (cause) and what it returned (resp,   *)
(*             nresp)                                                      *)
(*   fs        the paths that exist on the filesystem                      *)
(*   lastDone  how the call before this one ended, and the label of its    *)
(*             response                                                    *)
(***************************************************************************)
VARIABLES calls, fs, lastDone

vars == <<calls, fs, lastDone>>

\* wrote: the paths created or written for the call, by the handler or by
\* its child; overlap: the calls that were under way when this one arrived
IdleCall ==
    [pc |-> "idle", name |-> "", args |-> EmptyDict, size |-> 0,
     algorithm |-> "", tmpdir |-> "", cmd |-> <<>>, child |-> "none",
     rc |-> 0, stderr |-> <<>>, out |-> "", spawns |-> 0, mkdirs |-> 0,
     cause |-> "none", resp |-> NoResponse, nresp |-> 0,
     wrote |-> {}, overlap |-> {}]

\* the handler returns r to call_tool, which returns it to the transport
Return(call, cause, r) ==
    [call EXCEPT !.pc = "returned", !.cause = cause, !.resp = r, !.nresp = @ + 1]

Min(S) == CHOOSE x \in S : \A y \in S : x <= y

(***************************************************************************)
(* The precondition checks.                                                *)
(***************************************************************************)
\* a variant that reads the fields in the reverse order
FirstAbsent_Last(keys, args) ==
    LET absent == {i \in DOMAIN keys : keys[i] \notin DOMAIN args}
    IN  IF absent = {} THEN 0 ELSE CHOOSE x \in absent : \A y \in absent : x >= y

\* Path(arguments[k]) for each k of keys in turn: the place of the first key
\* that raises KeyError, 0 when none does
FirstAbsent(keys, args) ==
    LET absent == {i \in DOMAIN keys : keys[i] \notin DOMAIN args}
    IN  IF absent = {} THEN 0 ELSE Min(absent)

\* Path.exists()
Exists(files, p) == p \in files

\* a variant that checks the paths in the reverse order
FirstMissing_Last(keys, args, files) ==
    LET missing == {i \in DOMAIN keys : ~Exists(files, args[keys[i]])}
    IN  IF missing = {} THEN 0 ELSE CHOOSE x \in missing : \A y \in missing : x >= y

\* "if not p.exists(): return" for each path in turn: the place of the first
\* path that does not exist, 0 when all exist
FirstMissing(keys, args, files) ==
    LET missing == {i \in DOMAIN keys : ~Exists(files, args[keys[i]])}
    IN  IF missing = {} THEN 0 ELSE Min(missing)

\* the text of the error for the i-th path of the handler
NotFoundLabel(name, i) ==
    CASE name = "bwa_index" -> "Reference file not found: "
      [] name \in {"bwa_mem", "bwa_aln"} ->
            IF i = 1 THEN "Reference not found: " ELSE "Reads file not found: "
      [] OTHER -> "File not found: "

(***************************************************************************)
(* The command builder.                                                    *)
(***************************************************************************)
\* a variant with >= for >
DefaultAlgorithm_AtLeast(size) == IF size >= SizeThreshold THEN "bwtsw" ELSE "is"

\* "bwtsw" if file_size > 2_000_000_000 else "is"
DefaultAlgorithm(size) == IF size > SizeThreshold THEN "bwtsw" ELSE "is"

\* a variant in which a large reference overrides the request
ChooseAlgorithm_SizeWins(args, size) ==
    IF size > SizeThreshold THEN "bwtsw" ELSE ArgGet(args, "algorithm", "is")

\* arguments.get("algorithm", <the default for the size>)
ChooseAlgorithm(args, size) == ArgGet(args, "algorithm", DefaultAlgorithm(size))

IndexCmd(args, algorithm) ==
    <<BwaPath, "index", "-a", algorithm, args["reference_fasta"]>>

\* a variant that appends the second reads file without looking for it
MemReads2_NoExistsCheck(args, files) ==
    IF Truthy(args, "reads2") THEN <<args["reads2"]>> ELSE <<>>

\* the second reads file is appended when it is given and exists
MemReads2(args, files) ==
    IF Truthy(args, "reads2") /\ Exists(files, args["reads2"])
    THEN <<args["reads2"]>> ELSE <<>>

MemCmd(args, files) ==
    <<BwaPath, "mem",
      "-t", ToString(ArgGet(args, "threads", DefaultThreads)),
      "-k", ToString(ArgGet(args, "min_seed_length", DefaultMinSeedLength)),
      "-w", ToString(ArgGet(args, "band_width", DefaultBandWidth))>>
    \o (IF Truthy(args, "read_group") THEN <<"-R", args["read_group"]>> ELSE <<>>)
    \o <<args["reference"], args["reads1"]>>
    \o MemReads2(args, files)

\* a variant that holds the number of mismatches under a ceiling
AlnCmd_Clamped(args) ==
    <<BwaPath, "aln",
      "-t", ToString(ArgGet(args, "threads", DefaultThreads)),
      "-n", ToString(Min({100, ArgGet(args, "max_mismatches", DefaultMaxMismatches)})),
      "-o", ToString(ArgGet(args, "max_gap_opens", DefaultMaxGapOpens)),
      args["reference"], args["reads"]>>

AlnCmd(args) ==
    <<BwaPath, "aln",
      "-t", ToString(ArgGet(args, "threads", DefaultThreads)),
      "-n", ToString(ArgGet(args, "max_mismatches", DefaultMaxMismatches)),
      "-o", ToString(ArgGet(args, "max_gap_opens", DefaultMaxGapOpens)),
      args["reference"], args["reads"]>>

SamseCmd(args) ==
    <<BwaPath, "samse", args["reference"], args["sai_file"], args["reads"]>>

SampeCmd(args) ==
    <<BwaPath, "sampe", args["reference"], args["sai_file1"], args["sai_file2"],
      args["reads1"], args["reads2"]>>

BuildCmd(name, args, files) ==
    CASE name = "bwa_mem" -> MemCmd(args, files)
      [] name = "bwa_aln" -> AlnCmd(args)
      [] name = "bwa_samse" -> SamseCmd(args)
      [] name = "bwa_sampe" -> SampeCmd(args)

(***************************************************************************)
(* The temporary directory and the output file in it.                      *)
(***************************************************************************)
\* a variant that puts the output beside the inputs
OutputPath_BesideInputs(name, d) ==
    "/data" \o (IF name = "bwa_aln" THEN "/alignment.sai" ELSE "/alignment.sam")

\* Path(tmpdir) / "alignment.sam", or "alignment.sai" for aln
OutputPath(name, d) ==
    d \o (IF name = "bwa_aln" THEN "/alignment.sai" ELSE "/alignment.sam")

\* TemporaryDirectory.__exit__: the directory and all below it are removed
Cleanup(files, d) == {p \in files : p # d /\ ~StartsWith(p, d \o "/")}

\* the end of the "with" block of a handler; _run_index has none
LeaveWith(files, call) ==
    IF call.tmpdir = "" THEN files ELSE Cleanup(files, call.tmpdir)

(***************************************************************************)
(* The result summarizer.                                                  *)
(***************************************************************************)
\* output.stat().st_size: the output is ASCII, a byte for each character
FileSize(content) == Len(content)

IndexSuffixes == <<".amb", ".ann", ".bwt", ".pac", ".sa">>

\* reference_fasta.with_suffix(reference_fasta.suffix + suffix)
IndexFile(ref, i) == ref \o IndexSuffixes[i]

\* the index files that exist, in the order of the suffixes
IndexFilesCreated(ref, files) ==
    LET all == [i \in DOMAIN IndexSuffixes |-> IndexFile(ref, i)]
    IN  SelectSeq(all, LAMBDA f : Exists(files, f))

\* the character U+2022 of the list of index files, written as its escape
Bullet == "\\u2022"

IndexSummary(call, files) ==
    LET made == IndexFilesCreated(call.args["reference_fasta"], files)
    IN  "BWA index created successfully!\n\n"
        \o "Reference: " \o call.args["reference_fasta"] \o "\n"
        \o "Algorithm: " \o call.algorithm \o "\n"
        \o "Index files created:\n"
        \o JoinLines([i \in DOMAIN made |-> "  " \o Bullet \o " " \o made[i]])

\* 'Yes' if arguments.get('reads2') else 'No'
PairedEnd(args) == IF Truthy(args, "reads2") THEN "Yes" ELSE "No"

MemSummary(call, content) ==
    "BWA-MEM alignment completed!\n\n"
    \o "Output file: " \o OutputPath("bwa_mem", call.tmpdir) \o "\n"
    \o "Output size: " \o FormatComma(FileSize(content)) \o " bytes\n"
    \o "Alignment records: " \o FormatComma(CountRecords(content)) \o "\n"
    \o "Threads used: " \o ToString(ArgGet(call.args, "threads", DefaultThreads)) \o "\n"
    \o "Paired-end: " \o PairedEnd(call.args)

AlnSummary(call, content) ==
    "BWA aln completed!\n\n"
    \o "Output SAI file: " \o OutputPath("bwa_aln", call.tmpdir) \o "\n"
    \o "Output size: " \o FormatComma(FileSize(content)) \o " bytes\n"
    \o "Use bwa_samse/sampe to convert to SAM format"

\* a variant that counts the records as the summary of mem does
SamseSummary_WithCount(call, content) ==
    "BWA samse completed!\n\n"
    \o "Output SAM file: " \o OutputPath("bwa_samse", call.tmpdir) \o "\n"
    \o "Output size: " \o FormatComma(FileSize(content)) \o " bytes\n"
    \o "Alignment records: " \o FormatComma(CountRecords(content))

SamseSummary(call, content) ==
    "BWA samse completed!\n\n"
    \o "Output SAM file: " \o OutputPath("bwa_samse", call.tmpdir) \o "\n"
    \o "Output size: " \o FormatComma(FileSize(content)) \o " bytes"

SampeSummary(call, content) ==
    "BWA sampe completed!\n\n"
    \o "Output SAM file: " \o OutputPath("bwa_sampe", call.tmpdir) \o "\n"
    \o "Output size: " \o FormatComma(FileSize(content)) \o " bytes"

Summary(call, content) ==
    CASE call.name = "bwa_mem" -> MemSummary(call, content)
      [] call.name = "bwa_aln" -> AlnSummary(call, content)
      [] call.name = "bwa_samse" -> SamseSummary(call, content)
      [] call.name = "bwa_sampe" -> SampeSummary(call, content)

\* f"BWA {subcommand} failed: "
FailedLabel(name) == "BWA " \o Subcommand(name) \o " failed: "

\* if process.returncode != 0: return [ErrorContent(f"BWA .. failed: {stderr.decode()}")]
\* (a decoding that raises is caught by the except clause)
NonZeroExit(call, err) ==
    LET dec == Decode(err)
    IN  IF dec.ok THEN ErrorContent(FailedLabel(call.name) \o dec.str)
        ELSE Except(dec.exc)

(***************************************************************************)
(* The handlers, up to the await of create_subprocess_exec.  Each yields   *)
(* the call and the filesystem it leaves: [call, fs].                      *)
(***************************************************************************)
\* the reading of the path fields and the existence checks: the response of
\* a call that ends there, NoResponse for a call that goes on
Preflight(call, files) ==
    LET keys == PathKeys(call.name)
        absent == FirstAbsent(keys, call.args)
    IN  IF absent # 0 THEN
            [cause |-> "missing_field", resp |-> Except(KeyError(keys[absent]))]
        ELSE LET miss == FirstMissing(keys, call.args, files)
             IN  IF miss # 0 THEN
                     [cause |-> "missing_input",
                      resp |-> ErrorContent(NotFoundLabel(call.name, miss)
                                            \o call.args[keys[miss]])]
                 ELSE [cause |-> "none", resp |-> NoResponse]

RunIndex(call, files, size, fault) ==
    LET pre == Preflight(call, files)
        algorithm == ChooseAlgorithm(call.args, size)
    IN  IF pre.cause # "none" THEN
            [call |-> Return(call, pre.cause, pre.resp), fs |-> files]
        ELSE IF fault = "stat" THEN
            [call |-> Return(call, "fault",
                             Except(StatError(call.args["reference_fasta"]))),
             fs |-> files]
        ELSE
            [call |-> [call EXCEPT !.pc = "spawning", !.size = size,
                                   !.algorithm = algorithm,
                                   !.cmd = IndexCmd(call.args, algorithm),
                                   !.spawns = @ + 1],
             fs |-> files]

\* _run_mem, _run_aln, _run_samse and _run_sampe
RunAligner(call, files, d, fault) ==
    LET pre == Preflight(call, files)
        inDir == [call EXCEPT !.tmpdir = d, !.mkdirs = @ + 1,
                              !.cmd = BuildCmd(call.name, call.args, files),
                              !.wrote = @ \cup {d}]
    IN  IF pre.cause # "none" THEN
            [call |-> Return(call, pre.cause, pre.resp), fs |-> files]
        ELSE IF fault = "mkdtemp" THEN
            [call |-> Return(call, "fault", Except(DiskFull)), fs |-> files]
        ELSE IF fault = "open" THEN
            [call |-> Return(inDir, "fault", Except(DiskFull)),
             fs |-> LeaveWith(files \cup {d}, inDir)]
        ELSE
            [call |-> [inDir EXCEPT !.pc = "spawning", !.spawns = @ + 1,
                                    !.wrote = @ \cup {OutputPath(call.name, d)}],
             fs |-> files \cup {d, OutputPath(call.name, d)}]

\* a variant whose table of handlers lacks the entry of bwa_sampe
Dispatch_MissingEntry(call, name, args, files, size, d, fault) ==
    LET req == [call EXCEPT !.name = name, !.args = args]
    IN  IF name = "bwa_index" THEN RunIndex(req, files, size, fault)
        ELSE IF name \in ToolNames \ {"bwa_sampe"}
             THEN RunAligner(req, files, d, fault)
        ELSE [call |-> Return(req, "unknown_tool",
                              ErrorContent("Unknown tool: " \o name)),
              fs |-> files]

\* call_tool: handlers.get(name), then the handler or "Unknown tool"
Dispatch(call, name, args, files, size, d, fault) ==
    LET req == [call EXCEPT !.name = name, !.args = args]
    IN  IF name = "bwa_index" THEN RunIndex(req, files, size, fault)
        ELSE IF name \in ToolNames THEN RunAligner(req, files, d, fault)
        ELSE [call |-> Return(req, "unknown_tool",
                              ErrorContent("Unknown tool: " \o name)),
              fs |-> files]

(***************************************************************************)
(* The handlers, from the completion of the child on.                      *)
(***************************************************************************)
\* what a child that exits with 0 leaves on the filesystem
ChildWrites(call, files) ==
    IF call.name = "bwa_index"
    THEN files \cup {IndexFile(call.args["reference_fasta"], i) :
                        i \in DOMAIN IndexSuffixes}
    ELSE files

\* the paths among them that the child itself names: those of bwa index,
\* beside the reference (the other subcommands write to standard output)
ChildPaths(call) == ChildWrites(call, {})

\* the handler after communicate() has returned
Finish(call, files, rc, err, content, post) ==
    LET done == [call EXCEPT !.child = "exited", !.rc = rc, !.stderr = err,
                             !.out = content,
                             !.wrote = IF rc = 0 THEN @ \cup ChildPaths(call)
                                       ELSE @]
        written == IF rc = 0 THEN ChildWrites(call, files) ELSE files
    IN  IF rc # 0 THEN
            [call |-> Return(done, "nonzero", NonZeroExit(done, err)),
             fs |-> LeaveWith(written, done)]
        ELSE IF call.name = "bwa_index" THEN
            [call |-> Return(done, "success",
                             TextContent(IndexSummary(done, written))),
             fs |-> written]
        ELSE IF post = "io" THEN
            [call |-> Return(done, "fault", Except(IOError)),
             fs |-> LeaveWith(written, done)]
        ELSE
            [call |-> Return(done, "success", TextContent(Summary(done, content))),
             fs |-> LeaveWith(written, done)]

\* a variant that removes the directory on the normal paths only
TimedOut_NoCleanup(call, files) ==
    [call |-> Return(call, "timeout", Except(TimeoutError)), fs |-> files]

\* a variant that swallows the timeout and goes on waiting for the child
TimedOut_KeepsWaiting(call, files) == [call |-> call, fs |-> files]

\* the handler after wait_for has raised TimeoutError: the exception leaves
\* the "with" blocks and reaches the except clause; nothing signals the child
TimedOut(call, files) ==
    [call |-> Return(call, "timeout", Except(TimeoutError)),
     fs |-> LeaveWith(files, call)]

\* a variant that fails before the "with" blocks are left
SpawnFailed_KeepsFiles(call, files, e) ==
    [call |-> Return(call, "spawn_error", Except(e)), fs |-> files]

\* a variant that tries the spawn a second time before it gives up
SpawnFailed_Retry(call, files, e) ==
    IF call.spawns < 2
    THEN [call |-> [call EXCEPT !.spawns = @ + 1], fs |-> files]
    ELSE [call |-> Return(call, "spawn_error", Except(e)),
          fs |-> LeaveWith(files, call)]

\* the handler after create_subprocess_exec has raised
SpawnFailed(call, files, e) ==
    [call |-> Return(call, "spawn_error", Except(e)),
     fs |-> LeaveWith(files, call)]

(***************************************************************************)
(* The actions: one for each stretch of a handler between two awaits, and  *)
(* those of the environment.                                               *)
(***************************************************************************)
Init ==
    /\ calls = [c \in Calls |-> IdleCall]
    /\ fs = {GoodPath(k) : k \in AllPathKeys}
    /\ lastDone = [cause |-> "none", label |-> ""]

\* the transport delivers a request to call_tool, which runs the handler up
\* to its first await
CallTool(c) ==
    /\ calls[c].pc = "idle"
    /\ \E name \in ToolNames \cup {UnknownName} :
         \E args \in ArgDicts(name), size \in FileSizes,
            d \in TmpDirs \ fs, fault \in PreFaults :
            LET r == Dispatch(calls[c], name, args, fs, size, d, fault)
            IN  /\ calls' = [calls EXCEPT ![c] = r.call]
                /\ fs' = r.fs
    /\ UNCHANGED lastDone

\* create_subprocess_exec returns a process
SpawnOk(c) ==
    /\ calls[c].pc = "spawning"
    /\ calls' = [calls EXCEPT ![c] = [@ EXCEPT !.pc = "running", !.child = "running"]]
    /\ UNCHANGED <<fs, lastDone>>

\* create_subprocess_exec raises
SpawnFail(c) ==
    /\ calls[c].pc = "spawning"
    /\ \E e \in SpawnErrors :
         LET r == SpawnFailed(calls[c], fs, e)
         IN  /\ calls' = [calls EXCEPT ![c] = r.call]
             /\ fs' = r.fs
    /\ UNCHANGED lastDone

\* the child exits before the timeout and communicate() returns, and the
\* handler runs to its return.  The handler reads the captured standard
\* error only after a non-zero exit and the output only after an exit with
\* 0, so the model draws each only there.
ChildExit(c) ==
    /\ calls[c].pc = "running"
    /\ calls[c].child = "running"
    /\ \E rc \in ExitCodes, post \in PostFaults :
         \E err \in (IF rc = 0 THEN {<<>>} ELSE ErrCaptures),
            content \in (IF rc = 0 THEN OutContents ELSE {""}) :
            LET r == Finish(calls[c], fs, rc, err, content, post)
            IN  /\ calls' = [calls EXCEPT ![c] = r.call]
                /\ fs' = r.fs
    /\ UNCHANGED lastDone

\* the timeout of wait_for expires before the child exits
Timeout(c) ==
    /\ calls[c].pc = "running"
    /\ calls[c].child = "running"
    /\ LET r == TimedOut(calls[c], fs)
       IN  /\ calls' = [calls EXCEPT ![c] = r.call]
           /\ fs' = r.fs
    /\ UNCHANGED lastDone

\* a child whose call has returned exits on its own
OrphanExit(c) ==
    /\ calls[c].pc = "returned"
    /\ calls[c].child = "running"
    /\ calls' = [calls EXCEPT ![c] = [@ EXCEPT !.child = "exited"]]
    /\ UNCHANGED <<fs, lastDone>>

\* the transport has sent the response; the slot is free for the next
\* request
NextRequest(c) ==
    /\ calls[c].pc = "returned"
    /\ calls' = [calls EXCEPT ![c] = IdleCall]
    /\ UNCHANGED <<fs, lastDone>>

\* the same, with the ending of the call remembered
NextRequestRecorded(c) ==
    /\ calls[c].pc = "returned"
    /\ lastDone' = [cause |-> calls[c].cause, label |-> ErrorClass(calls[c].resp)]
    /\ calls' = [calls EXCEPT ![c] = IdleCall]
    /\ UNCHANGED fs

\* the slot of a transport that delivers its requests one after the other
SerialSlots == {c \in Calls : \A o \in Calls : c <= o}

Next ==
    \E c \in SerialSlots :
        \/ CallTool(c)
        \/ SpawnOk(c)
        \/ SpawnFail(c)
        \/ ChildExit(c)
        \/ Timeout(c)
        \/ OrphanExit(c)
        \/ NextRequest(c)

Spec == Init /\ [][Next]_vars

\* the same system, observed with the ending of the previous call
NextHist ==
    \E c \in SerialSlots :
        \/ CallTool(c)
        \/ SpawnOk(c)
        \/ SpawnFail(c)
        \/ ChildExit(c)
        \/ Timeout(c)
        \/ OrphanExit(c)
        \/ NextRequestRecorded(c)

SpecHist == Init /\ [][NextHist]_vars

\* The server under a transport that delivers a request while others are
\* under way: every slot takes one call, and the handlers interleave at
\* their awaits.  The requests are the ones that pass the checks.
ConcRequests ==
    {[name |-> "bwa_index",
      args |-> [k \in {"reference_fasta"} |-> GoodPath("reference_fasta")]],
     [name |-> "bwa_mem",
      args |-> [k \in {"reference", "reads1"} |-> GoodPath(k)]]}

UnderWay == {c \in Calls : calls[c].pc \in {"spawning", "running"}}

ConcCallTool(c) ==
    /\ calls[c].pc = "idle"
    /\ \E req \in ConcRequests, d \in TmpDirs \ fs :
         LET r == Dispatch(calls[c], req.name, req.args, fs, 0, d, "none")
         IN  /\ calls' = [calls EXCEPT
                             ![c] = [r.call EXCEPT !.overlap = UnderWay \ {c}]]
             /\ fs' = r.fs
    /\ UNCHANGED lastDone

ConcChildExit(c) ==
    /\ calls[c].pc = "running"
    /\ calls[c].child = "running"
    /\ \E rc \in ExitCodes :
         LET r == Finish(calls[c], fs, rc, <<>>,
                         IF rc = 0 THEN "r\n" ELSE "", "none")
         IN  /\ calls' = [calls EXCEPT ![c] = r.call]
             /\ fs' = r.fs
    /\ UNCHANGED lastDone

NextConc ==
    \E c \in Calls :
        \/ ConcCallTool(c)
        \/ SpawnOk(c)
        \/ SpawnFail(c)
        \/ ConcChildExit(c)
        \/ Timeout(c)
        \/ OrphanExit(c)

SpecConc == Init /\ [][NextConc]_vars

\* the same system under the scheduling the event loop gives: the await of
\* create_subprocess_exec ends, by a process or by an exception, and the
\* timer of wait_for fires when the child has not exited before
Fairness ==
    \A c \in SerialSlots :
        /\ WF_vars(SpawnOk(c) \/ SpawnFail(c))
        /\ WF_vars(Timeout(c))

SpecLive == Init /\ [][Next]_vars /\ Fairness

(***************************************************************************)
(* The properties.  What they say of a request or of a child is stated     *)
(* here from the request and the child, not with the operators of the      *)
(* handlers above.                                                         *)
(***************************************************************************)
\* the calls that have returned their response
ReturnedCalls == {c \in Calls : calls[c].pc = "returned"}

\* the calls of a handler of the server
HandlerCalls == {c \in ReturnedCalls : calls[c].name \in ToolNames}

\* the places of the path fields of call c that the request leaves out
AbsentFields(c) ==
    {i \in DOMAIN PathKeys(calls[c].name) :
        PathKeys(calls[c].name)[i] \notin DOMAIN calls[c].args}

\* the places of the path fields of call c whose path does not exist
NonExistent(c) ==
    {i \in DOMAIN PathKeys(calls[c].name) :
        /\ PathKeys(calls[c].name)[i] \in DOMAIN calls[c].args
        /\ calls[c].args[PathKeys(calls[c].name)[i]] \notin fs}

\* i is the first place of S
IsFirstOf(i, S) == i \in S /\ \A j \in S : i <= j

\* the path the request gives for the i-th path field
PathAt(c, i) == calls[c].args[PathKeys(calls[c].name)[i]]

\* s ends with t
EndsWith(s, t) ==
    Len(t) <= Len(s) /\ SubSeq(s, Len(s) - Len(t) + 1, Len(s)) = t

----------------------------------------------------------------------------
\* C1: in every handler, a child that has not completed when the timeout
\* expires is terminated before the call returns: no call has returned its
\* response while the child it spawned is still running.
C1_NoChildRunningAfterReturn ==
    \A c \in ReturnedCalls : calls[c].child # "running"

----------------------------------------------------------------------------
\* C2: a call whose child exceeds the timeout returns an error response
\* classified as a timeout: its label is not the label of the response to a
\* non-zero exit, to a spawn failure or to another unexpected fault.
C2_TimeoutResponseDistinct ==
    \A c \in ReturnedCalls :
        calls[c].cause = "timeout" =>
            /\ calls[c].resp.kind = "error"
            /\ lastDone.cause \in {"nonzero", "spawn_error", "fault"} =>
                   ErrorClass(calls[c].resp) # lastDone.label

----------------------------------------------------------------------------
\* what C3 says of a call: the response is an error that names the first
\* non-existent path of the check order and no other non-existent path, no
\* child was spawned and no temporary directory was created
NamesFirstNonExistent(c) ==
    /\ calls[c].resp.kind = "error"
    /\ \A i \in NonExistent(c) :
          Contains(calls[c].resp.text, PathAt(c, i)) <=> IsFirstOf(i, NonExistent(c))
    /\ calls[c].spawns = 0
    /\ calls[c].mkdirs = 0
    /\ calls[c].child = "none"

\* C3 as stated: for each of the five operations, when one or more of the
\* required input paths does not exist on the filesystem, the call returns
\* an error naming exactly the first non-existent path in the check order,
\* spawns no child and creates no temporary directory.
C3_FirstNonExistentNamed ==
    \A c \in HandlerCalls : NonExistent(c) # {} => NamesFirstNonExistent(c)

\* C3 as amended: the same, for the calls whose request supplies every
\* required path field.
C3_FirstNonExistentNamedWhenAllSupplied ==
    \A c \in HandlerCalls :
        (AbsentFields(c) = {} /\ NonExistent(c) # {}) => NamesFirstNonExistent(c)

\* a paired-end SAM call has returned with all five fields supplied, the
\* third and the fifth path non-existent
C3_Witness ==
    \E c \in HandlerCalls :
        /\ calls[c].name = "bwa_sampe"
        /\ AbsentFields(c) = {}
        /\ NonExistent(c) = {3, 5}
        /\ calls[c].resp.kind = "error"

----------------------------------------------------------------------------
\* C4: for all five operations, a call whose parameter set lacks a required
\* path field returns an error that identifies the first missing field (and
\* no other missing field), and launches no child process.
C4_FirstAbsentFieldNamed ==
    \A c \in HandlerCalls :
        AbsentFields(c) # {} =>
            /\ calls[c].resp.kind = "error"
            /\ \A i \in AbsentFields(c) :
                  Contains(calls[c].resp.text,
                           "'" \o PathKeys(calls[c].name)[i] \o "'")
                      <=> IsFirstOf(i, AbsentFields(c))
            /\ calls[c].spawns = 0
            /\ calls[c].child = "none"

\* a paired-end SAM call has returned whose request lacks the second SAI
\* file and the second reads file, and whose reference does not exist
C4_Witness ==
    \E c \in HandlerCalls :
        /\ calls[c].name = "bwa_sampe"
        /\ AbsentFields(c) = {3, 5}
        /\ NonExistent(c) = {1}
        /\ calls[c].resp.kind = "error"

----------------------------------------------------------------------------
\* the index calls without an algorithm parameter that have chosen one
DefaultedIndexCalls ==
    {c \in Calls : /\ calls[c].name = "bwa_index"
                   /\ calls[c].spawns > 0
                   /\ "algorithm" \notin DOMAIN calls[c].args}

\* call c passes algorithm a to the binary, and reports it when it succeeds
UsesAlgorithm(c, a) ==
    /\ calls[c].cmd[4] = a
    /\ calls[c].cause = "success" =>
           Contains(calls[c].resp.text, "Algorithm: " \o a \o "\n")

----------------------------------------------------------------------------
\* C6: a mem call that supplies a second reads path which does not exist
\* behaves as the call without it: the argument vector ends with the first
\* reads path and holds no second one, no error names the missing path, and
\* the success summary reports paired-end = No.
C6_MissingReads2AsOmitted ==
    \A c \in ReturnedCalls :
        (/\ calls[c].name = "bwa_mem"
         /\ calls[c].spawns > 0
         /\ "reads2" \in DOMAIN calls[c].args
         /\ calls[c].args["reads2"] \notin fs) =>
            /\ calls[c].cmd[Len(calls[c].cmd)] = calls[c].args["reads1"]
            /\ \A i \in DOMAIN calls[c].cmd : calls[c].cmd[i] # calls[c].args["reads2"]
            /\ ~Contains(calls[c].resp.text, calls[c].args["reads2"])
            /\ calls[c].cause = "success" =>
                   Contains(calls[c].resp.text, "Paired-end: No")

----------------------------------------------------------------------------
\* the characters a capture of the model decodes to
ErrChars == {"\n", "A", "é"}

\* str.encode(): the UTF-8 bytes of a string of these characters
RECURSIVE Utf8(_)
Utf8(s) ==
    IF Len(s) = 0 THEN <<>>
    ELSE (CASE SubSeq(s, 1, 1) = "\n" -> <<10>>
            [] SubSeq(s, 1, 1) = "A" -> <<65>>
            [] SubSeq(s, 1, 1) = "é" -> <<195, 169>>)
         \o Utf8(SubSeq(s, 2, Len(s)))

\* the text t ends with the captured bytes bs, unmodified
CarriesCapture(t, bs) ==
    \E s \in StringsUpTo(ErrChars, Len(bs)) : Utf8(s) = bs /\ EndsWith(t, s)

\* C7: in every handler, when the child completes with a non-zero exit code
\* the call returns an error response whose text contains the captured
\* standard error exactly and unmodified, for every captured output, and
\* never a success summary.
C7_NonZeroExitCarriesStderr ==
    \A c \in ReturnedCalls :
        calls[c].rc # 0 =>
            /\ calls[c].resp.kind = "error"
            /\ CarriesCapture(calls[c].resp.text, calls[c].stderr)

----------------------------------------------------------------------------
\* C8: for every handler that creates a temporary directory, the directory
\* (and all in it) no longer exists once the call has returned, on every
\* exit path.
C8_TmpDirGoneAfterReturn ==
    \A c \in ReturnedCalls :
        calls[c].mkdirs > 0 =>
            \A p \in fs : ~StartsWith(p, calls[c].tmpdir)

\* a call has returned on the timeout path after creating its directory
C8_Witness ==
    \E c \in ReturnedCalls :
        /\ calls[c].mkdirs > 0
        /\ calls[c].cause = "timeout"
        /\ calls[c].tmpdir \in TmpDirs

----------------------------------------------------------------------------
\* N: the number of lines of a file, one for each "\n" and one for a last
\* line that has none
NumLines(content) ==
    Cardinality({i \in 1 .. Len(content) : SubSeq(content, i, i) = "\n"})
    + (IF Len(content) > 0 /\ SubSeq(content, Len(content), Len(content)) # "\n"
       THEN 1 ELSE 0)

\* H: the number of lines that start with "@"
NumHeaderLines(content) ==
    Cardinality({i \in 1 .. Len(content) :
                    /\ SubSeq(content, i, i) = "@"
                    /\ (i = 1 \/ SubSeq(content, i - 1, i - 1) = "\n")})

\* C9: for a successful mem run whose output file has N lines of which H
\* start with "@", the alignment-record count of the summary is N - H.
C9_RecordCountIsNMinusH ==
    \A c \in ReturnedCalls :
        (calls[c].name = "bwa_mem" /\ calls[c].cause = "success") =>
            Contains(calls[c].resp.text,
                     "Alignment records: "
                     \o ToString(NumLines(calls[c].out) - NumHeaderLines(calls[c].out))
                     \o "\n")

\* a mem run has succeeded with an output of two lines: a header line, and a
\* record that holds an "@" and ends without a newline
C9_Witness ==
    \E c \in ReturnedCalls :
        /\ calls[c].name = "bwa_mem"
        /\ calls[c].cause = "success"
        /\ calls[c].out = "@\nr@"

----------------------------------------------------------------------------
\* C10: every call to the dispatcher or to a handler yields exactly one
\* response, a success payload or an error payload, whatever the outcome of
\* the precondition checks, of the spawn and of the child: no fault leaves
\* the handler uncaught.
C10_OneResponseNoFaultEscapes ==
    \A c \in Calls :
        /\ calls[c].pc = "returned" =>
               (calls[c].nresp = 1 /\ calls[c].resp.kind \in {"text", "error"})
        /\ calls[c].pc # "returned" =>
               (calls[c].nresp = 0 /\ calls[c].resp.kind = "none")

\* a call whose request lacks a required field has returned, the KeyError
\* of the lookup turned into its one error response
C10_Witness ==
    \E c \in ReturnedCalls :
        /\ calls[c].cause = "missing_field"
        /\ calls[c].resp.kind = "error"
        /\ calls[c].nresp = 1

----------------------------------------------------------------------------
\* C11: every call eventually returns a terminal response: given that the
\* timer of the timeout fires, no call stays forever in the running state
\* (or in its spawn), whether or not its child ever exits on its own.
C11_EveryCallReturns ==
    \A c \in Calls :
        (calls[c].pc \in {"spawning", "running"}) ~> (calls[c].pc = "returned")

\* a backtrack-search call has returned by its timeout while its child, which
\* never exited, is still there
C11_Witness ==
    \E c \in ReturnedCalls :
        /\ calls[c].name = "bwa_aln"
        /\ calls[c].cause = "timeout"
        /\ calls[c].child = "running"
        /\ calls[c].resp.kind = "error"

----------------------------------------------------------------------------
\* C12: a call whose name is none of the five registered ones is answered
\* with an error response that names that name, and nothing has been done
\* for it: no command built, no child spawned, no temporary directory made.
\* A call with a registered name is never answered so, and the command it
\* spawns is the one of the handler registered under that name.
RegisteredCommand ==
    [bwa_index |-> "index", bwa_mem |-> "mem", bwa_aln |-> "aln",
     bwa_samse |-> "samse", bwa_sampe |-> "sampe"]

C12_UnknownNameRejectedKnownDispatched ==
    \A c \in Calls :
        calls[c].pc # "idle" =>
            IF calls[c].name \in DOMAIN RegisteredCommand
            THEN /\ ~Contains(calls[c].resp.text, "Unknown tool")
                 /\ calls[c].spawns > 0 =>
                        calls[c].cmd[2] = RegisteredCommand[calls[c].name]
            ELSE /\ calls[c].pc = "returned"
                 /\ calls[c].resp.kind = "error"
                 /\ Contains(calls[c].resp.text, calls[c].name)
                 /\ calls[c].cmd = <<>>
                 /\ calls[c].spawns = 0
                 /\ calls[c].mkdirs = 0
                 /\ calls[c].child = "none"
                 /\ calls[c].tmpdir = ""

\* a call under a name that is not registered has been answered
C12_Witness ==
    \E c \in ReturnedCalls :
        /\ calls[c].name \notin DOMAIN RegisteredCommand
        /\ calls[c].resp = ErrorContent("Unknown tool: bwa_view")

----------------------------------------------------------------------------
\* C13: of two calls that were under way at the same time, the sets of
\* paths written for the one and for the other (temporary directory, output
\* file, files written by the child) have no path in common, whatever the
\* two operations are, two index calls on the same reference included.
Overlapped(c1, c2) == c2 \in calls[c1].overlap \/ c1 \in calls[c2].overlap

C13_WrittenPathsDisjoint ==
    \A c1, c2 \in Calls :
        c1 # c2 /\ Overlapped(c1, c2) =>
            calls[c1].wrote \cap calls[c2].wrote = {}

----------------------------------------------------------------------------
\* the calls a handler has taken up, returned or not
TakenUp == {c \in Calls : calls[c].pc # "idle" /\ calls[c].name \in ToolNames}

ChecksPass(c) == AbsentFields(c) = {} /\ NonExistent(c) = {}

\* C14 as stated: a call makes at most one spawn attempt; a call whose
\* checks all pass makes exactly one, a call that fails a check makes none.
C14_ExactlyOneSpawnWhenChecksPass ==
    \A c \in TakenUp :
        /\ calls[c].spawns <= 1
        /\ calls[c].spawns = (IF ChecksPass(c) THEN 1 ELSE 0)

\* C14, amended: a call makes at most one spawn attempt and never a second
\* one after a failure, and has a child only by that attempt.  A call that
\* fails a check makes none.  A call whose checks all pass makes exactly
\* one, unless a fault of the system between the checks and the spawn (the
\* stat of the reference, the making of the temporary directory, the opening
\* of the output file) has ended it with an error response: then it has made
\* none.
C14_AtMostOneSpawn ==
    \A c \in TakenUp :
        /\ calls[c].spawns <= 1
        /\ calls[c].child # "none" => calls[c].spawns = 1
        /\ ~ChecksPass(c) => calls[c].spawns = 0
        /\ ChecksPass(c) =>
              \/ calls[c].spawns = 1
              \/ /\ calls[c].spawns = 0
                 /\ calls[c].pc = "returned"
                 /\ calls[c].cause = "fault"
                 /\ calls[c].resp.kind = "error"

\* a single-end conversion whose spawn failed has returned after that one
\* attempt
C14_Witness ==
    \E c \in ReturnedCalls :
        /\ calls[c].name = "bwa_samse"
        /\ ChecksPass(c)
        /\ calls[c].spawns = 1
        /\ calls[c].child = "none"
        /\ Contains(calls[c].resp.text, "Permission denied")

----------------------------------------------------------------------------
\* the calls of mem that have reached their spawn
MemSpawned == {c \in TakenUp : calls[c].name = "bwa_mem" /\ calls[c].spawns > 0}

\* the request of c gives a second reads file, and the file exists
ValidReads2(c) ==
    /\ "reads2" \in DOMAIN calls[c].args
    /\ calls[c].args["reads2"] \in fs

\* the argument vector of c ends with the sequence t
CmdEndsWith(c, t) ==
    /\ Len(t) <= Len(calls[c].cmd)
    /\ SubSeq(calls[c].cmd, Len(calls[c].cmd) - Len(t) + 1, Len(calls[c].cmd)) = t

Succeeded(c) == calls[c].pc = "returned" /\ calls[c].resp.kind = "text"

\* C15: the argument vector of mem ends with the reference, the first reads
\* file and the second reads file exactly when a second reads file is given
\* and exists, and the summary of such a call reports "Paired-end: Yes"; in
\* every other case the vector ends with the reference and the first reads
\* file, and the summary of a call given the first reads file only reports
\* "Paired-end: No".
C15_Reads2AppendedIffValid ==
    \A c \in MemSpawned :
        LET a == calls[c].args
        IN  IF ValidReads2(c)
            THEN /\ CmdEndsWith(c, <<a["reference"], a["reads1"], a["reads2"]>>)
                 /\ Succeeded(c) => Contains(calls[c].resp.text, "Paired-end: Yes")
            ELSE /\ CmdEndsWith(c, <<a["reference"], a["reads1"]>>)
                 /\ ("reads2" \notin DOMAIN a /\ Succeeded(c)) =>
                        Contains(calls[c].resp.text, "Paired-end: No")

\* a paired-end alignment has succeeded
C15_Witness ==
    \E c \in MemSpawned :
        /\ ValidReads2(c)
        /\ Succeeded(c)
        /\ CmdEndsWith(c, <<"/data/reads1", "/data/reads2">>)

----------------------------------------------------------------------------
\* what the system says when it cannot start the binary
SystemMessages == {"No such file or directory", "Permission denied"}

\* the paths of the filesystem in or under the directory d
Under(d) == {p \in fs : p = d \/ StartsWith(p, d \o "/")}

\* C16: a call whose checks passed and whose spawn failed has returned an
\* error response that carries the message of the system; it has no child,
\* and neither its temporary directory nor the output file in it is left.
C16_SpawnFailureReportedAndCleaned ==
    \A c \in ReturnedCalls :
        calls[c].cause = "spawn_error" =>
            /\ calls[c].resp.kind = "error"
            /\ \E m \in SystemMessages : Contains(calls[c].resp.text, m)
            /\ calls[c].child = "none"
            /\ calls[c].spawns = 1
            /\ calls[c].name # "bwa_index" =>
                  /\ calls[c].tmpdir # ""
                  /\ Under(calls[c].tmpdir) = {}

\* a paired-end conversion has returned because the binary was not found
C16_Witness ==
    \E c \in ReturnedCalls :
        /\ calls[c].name = "bwa_sampe"
        /\ calls[c].cause = "spawn_error"
        /\ calls[c].mkdirs = 1
        /\ Contains(calls[c].resp.text, "No such file or directory: 'bwa'")

----------------------------------------------------------------------------
\* the index calls with an algorithm parameter that have reached their spawn
ExplicitIndexCalls ==
    {c \in Calls : /\ calls[c].name = "bwa_index"
                   /\ calls[c].spawns > 0
                   /\ "algorithm" \in DOMAIN calls[c].args}

\* C17: an index call that names its algorithm passes that value after -a to
\* the binary and reports it in its success summary, whatever the size of the
\* reference is.
C17_ExplicitAlgorithmUsed ==
    \A c \in ExplicitIndexCalls :
        /\ calls[c].cmd[3] = "-a"
        /\ UsesAlgorithm(c, calls[c].args["algorithm"])

\* an index call that asks for "is" has succeeded on a reference larger than
\* the threshold, where the default would have been "bwtsw"
C17_Witness ==
    \E c \in ExplicitIndexCalls :
        /\ calls[c].args["algorithm"] = "is"
        /\ calls[c].size > 2000000000
        /\ calls[c].cause = "success"
        /\ calls[c].cmd[4] = "is"

----------------------------------------------------------------------------
\* the calls of the four operations with an output file that have succeeded
OutputCalls ==
    {c \in ReturnedCalls : /\ calls[c].name \in ToolNames \ {"bwa_index"}
                           /\ calls[c].cause = "success"}

\* the summary of c reports n as its count of alignment records
ReportsRecords(c, n) == Contains(calls[c].resp.text, "records: " \o ToString(n))

\* the summary of c reports a count of records at all
ReportsAnyCount(c) == Contains(calls[c].resp.text, "records")

\* the summary of c reports the size of its output
ReportsSize(c) ==
    Contains(calls[c].resp.text,
             "Output size: " \o ToString(Len(calls[c].out)) \o " bytes")

\* C18 as stated: the success summary of every operation that produces SAM
\* (mem, samse, sampe) reports the number of output lines that do not start
\* with "@"; that of aln reports the size only.
C18_EverySamOperationCounts ==
    \A c \in OutputCalls :
        /\ ReportsSize(c)
        /\ IF calls[c].name = "bwa_aln" THEN ~ReportsAnyCount(c)
           ELSE ReportsRecords(c, NumLines(calls[c].out)
                                   - NumHeaderLines(calls[c].out))

\* C18, amended: of the operations that produce SAM only mem reports the
\* number of output lines that do not start with "@"; the success summaries
\* of samse and sampe, like that of aln, report the size of the output and
\* no count of records.
C18_OnlyMemCounts ==
    \A c \in OutputCalls :
        /\ ReportsSize(c)
        /\ IF calls[c].name = "bwa_mem"
           THEN ReportsRecords(c, NumLines(calls[c].out)
                                   - NumHeaderLines(calls[c].out))
           ELSE ~ReportsAnyCount(c)

\* a single-end conversion has succeeded with a header line and a record in
\* its output, and its summary holds no count
C18_Witness ==
    \E c \in OutputCalls :
        /\ calls[c].name = "bwa_samse"
        /\ calls[c].out = "@\nr\n"
        /\ ~ReportsAnyCount(c)
        /\ ReportsSize(c)

----------------------------------------------------------------------------
\* the value that follows the flag at place i of the argument vector of c is
\* the one the request gives for field k, or the text dflt when it gives none
FlagCarries(c, i, flag, k, dflt) ==
    /\ calls[c].cmd[i] = flag
    /\ calls[c].cmd[i + 1] =
          (IF k \in DOMAIN calls[c].args THEN ToString(calls[c].args[k]) ELSE dflt)

\* C19: in the argument vector of mem the flags -t, -k and -w carry 4, 19 and
\* 100 when the request leaves threads, min_seed_length and band_width out;
\* in that of aln the flags -t, -n and -o carry 4, 4 and 1 when it leaves
\* threads, max_mismatches and max_gap_opens out.  A value the request gives
\* is passed as it is, however large or small.
C19_NumericParametersPassedOrDefaulted ==
    \A c \in TakenUp :
        calls[c].spawns > 0 =>
            /\ calls[c].name = "bwa_mem" =>
                  /\ FlagCarries(c, 3, "-t", "threads", "4")
                  /\ FlagCarries(c, 5, "-k", "min_seed_length", "19")
                  /\ FlagCarries(c, 7, "-w", "band_width", "100")
            /\ calls[c].name = "bwa_aln" =>
                  /\ FlagCarries(c, 3, "-t", "threads", "4")
                  /\ FlagCarries(c, 5, "-n", "max_mismatches", "4")
                  /\ FlagCarries(c, 7, "-o", "max_gap_opens", "1")

\* a backtrack search given a million mismatches and no thread count has
\* spawned its child
C19_Witness ==
    \E c \in TakenUp :
        /\ calls[c].name = "bwa_aln"
        /\ calls[c].child # "none"
        /\ "threads" \notin DOMAIN calls[c].args
        /\ "max_mismatches" \in DOMAIN calls[c].args
        /\ SubSeq(calls[c].cmd, 3, 6) = <<"-t", "4", "-n", "1000000">>

----------------------------------------------------------------------------
\* the output file the summary of c is to name: the one in its own temporary
\* directory
NamedOutput(c) ==
    calls[c].tmpdir \o "/alignment."
    \o (IF calls[c].name = "bwa_aln" THEN "sai" ELSE "sam")

\* C20: the output file that the success response of mem, aln, samse or
\* sampe names lies in the temporary directory of the call, and that
\* directory is removed before the response is returned: in every state in
\* which the caller holds such a response, the path it names does not exist.
C20_NamedOutputGoneOnSuccess ==
    \A c \in OutputCalls :
        /\ calls[c].tmpdir \in TmpDirs
        /\ Contains(calls[c].resp.text, "file: " \o NamedOutput(c) \o "\n")
        /\ NamedOutput(c) \notin fs
        /\ calls[c].tmpdir \notin fs

\* the caller holds the success response of a paired-end conversion whose
\* child wrote a record; the response names the file in /tmp/tmp1, which is
\* not there
C20_Witness ==
    \E c \in OutputCalls :
        /\ calls[c].name = "bwa_sampe"
        /\ calls[c].out = "r\n"
        /\ Contains(calls[c].resp.text, "/tmp/tmp1/alignment.sam")
        /\ "/tmp/tmp1/alignment.sam" \notin fs

====
